---- MODULE Spec2Model ----
(***************************************************************************)
(* Link checker: a table of (business_name, URL) rows is processed in two  *)
(* phases.  Phase 1 (ExaAPI.process_urls_in_batches) retrieves the text of *)
(* every URL in chunks of batch_size; phase 2 (process_urls_optimized)     *)
(* classifies each row with OpenRouterAPI.classify_business unless the     *)
(* row's content is an error marker.                                       *)
(*                                                                         *)
(* Python strings whose characters the code inspects (startswith, strip,   *)
(* upper, split, f-string prefixes) are sequences of one-character         *)
(* strings.  URLs and business names are only compared and used as dict    *)
(* keys, so they are plain values.  A dict is a function whose DOMAIN is   *)
(* its key set.                                                            *)
(***************************************************************************)
EXTENDS Integers, Sequences, FiniteSets, TLC

VARIABLES
    urls,             \* df['URL'].tolist()
    business_names,   \* df['business_name'].tolist()
    pc,               \* position of the run: "retrieving", "retrieved", "done"
    i,                \* offset of the next chunk in process_urls_in_batches
    all_results,      \* dict accumulated by process_urls_in_batches
    trace,            \* calls made so far: get_content_batch and time.sleep
    content_results,  \* dict returned by process_urls_in_batches
    idx,              \* number of rows handled by the phase 2 loop
    results,          \* list of result records of process_urls_optimized
    classify_calls,   \* classify_business calls: the row and the API outcome
    summary,          \* metrics computed by display_results
    response,         \* API response handed to _parse_classification_response
    parsed,           \* what _parse_classification_response returned for it
    request,          \* arguments of a single get_content_batch call
    returned,         \* what that get_content_batch call returned
    uploaded_file,    \* the CSV file handed to load_csv
    loaded,           \* what load_csv did with it
    llm               \* outcomes the classification service of the run can give

\* the state of a run of process_urls_optimized
runVars == <<urls, business_names, pc, i, all_results, trace, content_results,
             idx, results, classify_calls, summary>>
\* the arguments and results of the functions called on their own
callVars == <<response, parsed, request, returned>>

\* the upload that precedes a run
csvVars == <<uploaded_file, loaded>>

vars == <<runVars, callVars, csvVars, llm>>

---------------------------------------------------------------------------
(* Bounds of the model *)

\* rows of an input table of the row pipeline
MaxRows == 2
\* blocks of repeated URLs that make up a long URL list
MaxBlocks == 3
\* pieces concatenated into the content text of a classification response
MaxPieces == 3
\* pieces concatenated into the reasoning text of a classification response
MaxReasoningPieces == 2
\* URLs of a single get_content_batch call
MaxBatch == 2
\* lines below the header of an uploaded file
MaxCsvRows == 2
\* rows after the first chunk of a table of more than batch_size rows
MaxTailRows == 2

(* Program constants *)

\* ExaAPI.batch_size
batch_size == 10
\* time.sleep(0.5), in milliseconds
sleep_ms == 500

---------------------------------------------------------------------------
(* Python helpers *)

Min(a, b) == IF a < b THEN a ELSE b

\* str.startswith
startswith(s, prefix) ==
    /\ Len(s) >= Len(prefix)
    /\ SubSeq(s, 1, Len(prefix)) = prefix

\* the empty dict
EmptyDict == [k \in {} |-> <<>>]

\* d[k] = v
dict_set(d, k, v) == (k :> v) @@ d

\* d.update(e)
\* a variant in which an entry already present is kept
dict_update_KeepsOld(d, e) == d @@ e

dict_update(d, e) == e @@ d

\* d.get(k, default)
dict_get(d, k, default) == IF k \in DOMAIN d THEN d[k] ELSE default

---------------------------------------------------------------------------
(* The content service (Exa.AI) as seen by get_content_batch *)

URLS == {"u1", "u2"}
UrlOrder == <<"u1", "u2">>

PageText == <<"A","c","m","e"," ","h","o","m","e">>  \* 'Acme home'
ErrorPageText == <<"E","r","r","o","r"," ","4","0","4"," ","p","a","g","e">>  \* 'Error 404 page'
NoContentAvailable == <<"N","o"," ","c","o","n","t","e","n","t"," ","a","v","a","i","l","a","b","l","e">>  \* 'No content available'
UnknownError == <<"U","n","k","n","o","w","n"," ","e","r","r","o","r">>  \* 'Unknown error'
CrawlTag == <<"C","R","A","W","L","_","N","O","T","_","F","O","U","N","D">>  \* 'CRAWL_NOT_FOUND'
TimeoutMessage == <<"t","i","m","e","d"," ","o","u","t">>  \* 'timed out'

\* what the service's 'results' and 'statuses' lists say about one URL:
\* <<entry in results, entry in statuses>>
UrlKinds ==
    {<<"none", "none">>, <<"text", "none">>, <<"errtext", "none">>,
     <<"notext", "none">>, <<"none", "error">>, <<"text", "error">>}
\* the same, with the rarer shapes of an entry, for single calls
AllUrlKinds ==
    UrlKinds \cup {<<"none", "error_notag">>, <<"notext", "error">>,
                   <<"errtext", "error">>, <<"text", "success">>,
                   <<"none", "success">>}

ResultEntry(u, kind) ==
    [id |-> u,
     has_text |-> kind # "notext",
     text |-> IF kind = "errtext" THEN ErrorPageText ELSE PageText]

StatusEntry(u, kind) ==
    [id |-> u,
     status |-> IF kind = "success" THEN "success" ELSE "error",
     has_tag |-> kind = "error",
     tag |-> CrawlTag]

RECURSIVE ResultList(_, _)
ResultList(k, n) ==
    IF n = 0 THEN <<>>
    ELSE LET u == UrlOrder[n]
         IN  ResultList(k, n - 1) \o
             (IF k[u][1] = "none" THEN <<>> ELSE <<ResultEntry(u, k[u][1])>>)

RECURSIVE StatusList(_, _)
StatusList(k, n) ==
    IF n = 0 THEN <<>>
    ELSE LET u == UrlOrder[n]
         IN  StatusList(k, n - 1) \o
             (IF k[u][2] = "none" THEN <<>> ELSE <<StatusEntry(u, k[u][2])>>)

\* the parsed JSON body of a 2xx response
ResponseData(k) ==
    LET rs == ResultList(k, Len(UrlOrder))
        ss == StatusList(k, Len(UrlOrder))
    IN  [has_results |-> rs # <<>>, results |-> rs,
         has_statuses |-> ss # <<>>, statuses |-> ss]

\* the outcomes of one requests.post: a transport failure, a failure while
\* reading the body, or a parsed body
Outcomes(kinds) ==
    {[kind |-> "network_error", msg |-> TimeoutMessage, data |-> <<>>],
     [kind |-> "api_error", msg |-> TimeoutMessage, data |-> <<>>]}
    \cup {[kind |-> "ok", msg |-> <<>>, data |-> ResponseData(k)] :
            k \in [URLS -> kinds]}

\* the outcomes drawn for the chunks of a run
ServiceOutcomes == Outcomes(UrlKinds)
\* the outcomes drawn for a single call
AllServiceOutcomes == Outcomes(AllUrlKinds)

---------------------------------------------------------------------------
(* ExaAPI.get_content_batch *)

\* for result in data['results']: results[url] = text
RECURSIVE HandleResults(_, _)
HandleResults(rs, acc) ==
    IF rs = <<>> THEN acc
    ELSE LET result == Head(rs)
             text == IF result.has_text THEN result.text ELSE NoContentAvailable
         IN  HandleResults(Tail(rs), dict_set(acc, result.id, text))

\* a variant that records the error whether or not the URL has a result
StatusErrorOverwrites(ss_head, acc) ==
    LET error_msg == <<"E","r","r","o","r",":"," ">> \o  \* 'Error: '
            (IF ss_head.has_tag THEN ss_head.tag ELSE UnknownError)
    IN  IF ss_head.status = "error"
        THEN dict_set(acc, ss_head.id, error_msg)
        ELSE acc

\* for status in data['statuses']: errors are added if url not in results
StatusErrorKeepsResult(ss_head, acc) ==
    LET error_msg == <<"E","r","r","o","r",":"," ">> \o  \* 'Error: '
            (IF ss_head.has_tag THEN ss_head.tag ELSE UnknownError)
    IN  IF ss_head.status = "error" /\ ss_head.id \notin DOMAIN acc
        THEN dict_set(acc, ss_head.id, error_msg)
        ELSE acc

RECURSIVE HandleStatuses(_, _)
HandleStatuses(ss, acc) ==
    IF ss = <<>> THEN acc
    ELSE HandleStatuses(Tail(ss), StatusErrorKeepsResult(Head(ss), acc))

\* a variant without the loop over the requested URLs
HandleMissing_Skips(us, acc) == acc

\* for url in urls: if url not in results: results[url] = "Error: URL not found..."
RECURSIVE HandleMissing(_, _)
HandleMissing(us, acc) ==
    IF us = <<>> THEN acc
    ELSE HandleMissing(Tail(us),
            IF Head(us) \in DOMAIN acc THEN acc
            ELSE dict_set(acc, Head(us), <<"E","r","r","o","r",":"," ","U","R","L"," ","n","o","t"," ","f","o","u","n","d"," ","i","n"," ","r","e","s","p","o","n","s","e">>))  \* 'Error: URL not found in response'

\* the call returns [raised, message, value]: value is the dict returned,
\* message the text of the exception raised
get_content_batch(batch, outcome) ==
    IF batch = <<>> THEN [raised |-> FALSE, message |-> <<>>, value |-> EmptyDict]
    ELSE IF outcome.kind = "network_error"
    THEN [raised |-> TRUE, message |-> <<"N","e","t","w","o","r","k"," ","e","r","r","o","r",":"," ">> \o outcome.msg,  \* 'Network error: '
          value |-> EmptyDict]
    ELSE IF outcome.kind = "api_error"
    THEN [raised |-> TRUE, message |-> <<"E","x","a",".","A","I"," ","A","P","I"," ","e","r","r","o","r",":"," ">> \o outcome.msg,  \* 'Exa.AI API error: '
          value |-> EmptyDict]
    ELSE LET data == outcome.data
             r1 == IF data.has_results THEN HandleResults(data.results, EmptyDict)
                   ELSE EmptyDict
             r2 == IF data.has_statuses THEN HandleStatuses(data.statuses, r1)
                   ELSE r1
         IN  [raised |-> FALSE, message |-> <<>>,
              value |-> HandleMissing(batch, r2)]

---------------------------------------------------------------------------
(* ExaAPI.process_urls_in_batches *)

\* batch = urls[i:i + self.batch_size]
batch_at(us, off) == SubSeq(us, off + 1, Min(off + batch_size, Len(us)))

\* a variant that marks the first URL of the batch only
MarkBatchFailed_FirstOnly(batch, message, acc) ==
    IF batch = <<>> THEN acc
    ELSE dict_set(acc, Head(batch), <<"B","a","t","c","h"," ","e","r","r","o","r",":"," ">> \o message)  \* 'Batch error: '

\* for url in batch: all_results[url] = f"Batch error: {str(e)}"
RECURSIVE MarkBatchFailed(_, _, _)
MarkBatchFailed(batch, message, acc) ==
    IF batch = <<>> THEN acc
    ELSE MarkBatchFailed(Tail(batch), message,
            dict_set(acc, Head(batch), <<"B","a","t","c","h"," ","e","r","r","o","r",":"," ">> \o message))  \* 'Batch error: '

\* a get_content_batch call: its argument, whether it raised, and the keys
\* of all_results the iteration wrote
CallEvent(batch, raised, written) ==
    [op |-> "get_content_batch", batch |-> batch, raised |-> raised,
     written |-> written]
SleepEvent == [op |-> "sleep", ms |-> sleep_ms]

\* one iteration of the loop: the dict and the calls made, for the chunk at
\* offset off of us and the given outcome of its request
process_batch(acc, us, off, outcome) ==
    LET batch == batch_at(us, off)
        r == get_content_batch(batch, outcome)
    IN  IF ~r.raised
        THEN [all_results |-> dict_update(acc, r.value),
              events |-> <<CallEvent(batch, FALSE, DOMAIN r.value)>> \o
                         (IF off + batch_size < Len(us) THEN <<SleepEvent>>
                          ELSE <<>>)]
        ELSE [all_results |-> MarkBatchFailed(batch, r.message, acc),
              events |-> <<CallEvent(batch, TRUE, {batch[k] : k \in 1..Len(batch)})>>]

\* the offset of the iteration after the one at off
next_offset(off) == off + batch_size

\* a variant whose loop ends at the first chunk that fails
ProcessBatch_StopsOnFailure ==
    /\ pc = "retrieving"
    /\ i < Len(urls)
    /\ \E outcome \in ServiceOutcomes :
          LET step == process_batch(all_results, urls, i, outcome)
          IN  /\ all_results' = step.all_results
              /\ trace' = trace \o step.events
              /\ i' = IF step.events[1].raised THEN Len(urls) ELSE next_offset(i)
    /\ UNCHANGED <<urls, business_names, pc, content_results, idx, results,
                   classify_calls, summary, callVars, csvVars, llm>>

ProcessBatch ==
    /\ pc = "retrieving"
    /\ i < Len(urls)
    /\ \E outcome \in ServiceOutcomes :
          LET step == process_batch(all_results, urls, i, outcome)
          IN  /\ all_results' = step.all_results
              /\ trace' = trace \o step.events
    /\ i' = next_offset(i)
    /\ UNCHANGED <<urls, business_names, pc, content_results, idx, results,
                   classify_calls, summary, callVars, csvVars, llm>>

\* return all_results
ReturnAllResults ==
    /\ pc = "retrieving"
    /\ i >= Len(urls)
    /\ pc' = "retrieved"
    /\ content_results' = all_results
    /\ UNCHANGED <<urls, business_names, i, all_results, trace, idx, results,
                   classify_calls, summary, callVars, csvVars, llm>>

---------------------------------------------------------------------------
(* Python str methods used by _parse_classification_response *)

Whitespace == {" ", "\n", "\t"}

LowerLetters == <<"a","b","c","d","e","f","g","h","i","j","k","l","m","n","o","p","q","r","s","t","u","v","w","x","y","z">>  \* 'abcdefghijklmnopqrstuvwxyz'
UpperLetters == <<"A","B","C","D","E","F","G","H","I","J","K","L","M","N","O","P","Q","R","S","T","U","V","W","X","Y","Z">>  \* 'ABCDEFGHIJKLMNOPQRSTUVWXYZ'

UpperChar(c) ==
    IF \E k \in 1..Len(LowerLetters) : LowerLetters[k] = c
    THEN UpperLetters[CHOOSE k \in 1..Len(LowerLetters) : LowerLetters[k] = c]
    ELSE c

\* str.upper
upper(s) == [k \in 1..Len(s) |-> UpperChar(s[k])]

RECURSIVE lstrip(_)
lstrip(s) ==
    IF s # <<>> /\ Head(s) \in Whitespace THEN lstrip(Tail(s)) ELSE s

RECURSIVE rstrip(_)
rstrip(s) ==
    IF s # <<>> /\ s[Len(s)] \in Whitespace
    THEN rstrip(SubSeq(s, 1, Len(s) - 1))
    ELSE s

\* str.strip
strip(s) == rstrip(lstrip(s))

\* str.split(): the maximal runs of non-whitespace characters, in order;
\* cur is the word being read, acc the words read so far
RECURSIVE SplitFrom(_, _, _)
SplitFrom(s, cur, acc) ==
    IF s = <<>> THEN (IF cur = <<>> THEN acc ELSE Append(acc, cur))
    ELSE IF Head(s) \in Whitespace
    THEN SplitFrom(Tail(s), <<>>, IF cur = <<>> THEN acc ELSE Append(acc, cur))
    ELSE SplitFrom(Tail(s), Append(cur, Head(s)), acc)

split(s) == SplitFrom(s, <<>>, <<>>)

\* x in list
Contains(list, x) == \E k \in 1..Len(list) : list[k] = x

---------------------------------------------------------------------------
(* OpenRouterAPI *)

VALID == <<"V","A","L","I","D">>  \* 'VALID'
INVALID == <<"I","N","V","A","L","I","D">>  \* 'INVALID'
NoResponseContent == <<"E","R","R","O","R",":"," ","N","o"," ","r","e","s","p","o","n","s","e"," ","c","o","n","t","e","n","t">>  \* 'ERROR: No response content'
NoneHasNoStrip == <<"'","N","o","n","e","T","y","p","e","'"," ","o","b","j","e","c","t"," ","h","a","s"," ","n","o"," ","a","t","t","r","i","b","u","t","e"," ","'","s","t","r","i","p","'">>  \* ''NoneType' object has no attribute 'strip''

\* a value of message['content'] or message['reasoning']: the key is absent,
\* holds null, or holds a string
Field(kind, text) == [kind |-> kind, text |-> text]
Absent == Field("absent", <<>>)
Null == Field("null", <<>>)
Str(text) == Field("str", text)

\* a chat-completion response: 'choices' may be absent or empty, its first
\* element may lack 'message'
Response(has_choices, n_choices, has_message, content, reasoning) ==
    [has_choices |-> has_choices, n_choices |-> n_choices,
     has_message |-> has_message, content |-> content, reasoning |-> reasoning]

\* a variant that looks for the words inside the tokens
ContainsInside(words, x) ==
    \E k \in 1..Len(words) : \E a \in 1..Len(words[k]) :
        /\ a + Len(x) - 1 <= Len(words[k])
        /\ SubSeq(words[k], a, a + Len(x) - 1) = x

verdict_of_words_Substring(words) ==
    IF ContainsInside(words, VALID) THEN VALID
    ELSE IF ContainsInside(words, INVALID) THEN INVALID
    ELSE INVALID

\* if 'VALID' in words ... elif 'INVALID' in words ... else 'INVALID'
verdict_of_words(words) ==
    IF Contains(words, VALID) THEN VALID
    ELSE IF Contains(words, INVALID) THEN INVALID
    ELSE INVALID

\* message.get(key, ''): the string to work on, the exception of calling
\* .strip() on None being left to the caller
get_text(field) == IF field.kind = "str" THEN field.text ELSE <<>>

\* the reasoning text is never read: a blank primary text gives INVALID
first_choice_verdict_IgnoresReasoning(resp) ==
    LET content_field == IF resp.has_message THEN resp.content ELSE Absent
    IN  IF content_field.kind = "null"
        THEN <<"E","R","R","O","R",":"," ">> \o NoneHasNoStrip  \* 'ERROR: '
        ELSE verdict_of_words(split(upper(strip(get_text(content_field)))))

\* the branch taken when the response has a first choice: the primary text is
\* stripped and uppercased; when that leaves nothing and the message has a
\* 'reasoning' key, the reasoning text is searched instead
first_choice_verdict(resp) ==
    LET content_field == IF resp.has_message THEN resp.content ELSE Absent
        reasoning_field == IF resp.has_message THEN resp.reasoning ELSE Absent
    IN  IF content_field.kind = "null"
        THEN <<"E","R","R","O","R",":"," ">> \o NoneHasNoStrip  \* 'ERROR: '
        ELSE LET content == upper(strip(get_text(content_field)))
             IN  IF content = <<>> /\ reasoning_field.kind # "absent"
                 THEN IF reasoning_field.kind = "null"
                      THEN <<"E","R","R","O","R",":"," ">> \o NoneHasNoStrip  \* 'ERROR: '
                      ELSE verdict_of_words(
                               split(upper(strip(get_text(reasoning_field)))))
                 ELSE verdict_of_words(split(content))

\* a response without choices is taken for a negative verdict
_parse_classification_response_NoChoiceInvalid(resp) ==
    IF resp.has_choices /\ resp.n_choices > 0
    THEN first_choice_verdict(resp)
    ELSE INVALID

_parse_classification_response(resp) ==
    IF resp.has_choices /\ resp.n_choices > 0
    THEN first_choice_verdict(resp)
    ELSE NoResponseContent

\* every outcome of _make_api_call in the row pipeline: requests.post or
\* raise_for_status raises, or a response body is returned
LlmOutcomes ==
    {[kind |-> "raise", msg |-> TimeoutMessage,
      resp |-> Response(FALSE, 0, FALSE, Absent, Absent)],
     [kind |-> "ok", msg |-> <<>>,
      resp |-> Response(TRUE, 0, FALSE, Absent, Absent)],
     [kind |-> "ok", msg |-> <<>>,
      resp |-> Response(TRUE, 1, TRUE, Null, Absent)],
     [kind |-> "ok", msg |-> <<>>,
      resp |-> Response(TRUE, 1, TRUE, Str(<<"V","A","L","I","D">>), Absent)],  \* 'VALID'
     [kind |-> "ok", msg |-> <<>>,
      resp |-> Response(TRUE, 1, TRUE, Str(<<"I"," ","t","h","i","n","k"," ","t","h","i","s"," ","i","s"," ","I","N","V","A","L","I","D"," ","b","a","s","e","d"," ","o","n">>),  \* 'I think this is INVALID based on'
                        Null)]}

\* a variant whose except branch returns the bare message
classify_business_BareMessage(outcome) ==
    IF outcome.kind = "raise" THEN outcome.msg
    ELSE _parse_classification_response(outcome.resp)

\* classify_business: the prompt is built from two strings, which cannot
\* fail; the API call raises or returns; every exception becomes a string
classify_business(outcome) ==
    IF outcome.kind = "raise" THEN <<"E","R","R","O","R",":"," ">> \o outcome.msg  \* 'ERROR: '
    ELSE _parse_classification_response(outcome.resp)

---------------------------------------------------------------------------
(* process_urls_optimized, phase 2, and display_results *)

NoContentRetrieved == <<"E","r","r","o","r",":"," ","N","o"," ","c","o","n","t","e","n","t"," ","r","e","t","r","i","e","v","e","d">>  \* 'Error: No content retrieved'
ERROR == <<"E","R","R","O","R">>  \* 'ERROR'

\* content_results.get(url, "Error: No content retrieved")
lookup_content(cr, url) == dict_get(cr, url, NoContentRetrieved)

\* a variant that looks for the marker with its colon
content_failed_ErrorColon(content) == startswith(content, <<"E","r","r","o","r",":">>)  \* 'Error:'

\* content.startswith("Error")
content_failed(content) == startswith(content, <<"E","r","r","o","r">>)  \* 'Error'

\* a variant whose website_working looks for the marker with its colon
result_record_ErrorColon(business_name, url, content, result) ==
    [business_name |-> business_name,
     URL |-> url,
     scraped_content |-> content,
     website_working |-> ~startswith(content, <<"E","r","r","o","r",":">>),  \* 'Error:'
     result |-> result]

\* the dict appended to results
result_record(business_name, url, content, result) ==
    [business_name |-> business_name,
     URL |-> url,
     scraped_content |-> content,
     website_working |-> ~content_failed(content),
     result |-> result]

\* a variant that leaves out the record of a row whose classification was skipped
append_result_DropsSkipped(rs, rec) ==
    IF rec.result = ERROR THEN rs ELSE Append(rs, rec)

\* results.append({...})
append_result(rs, rec) == Append(rs, rec)

\* the row loop takes the branch that skips the classifier
SkipRow ==
    /\ pc = "retrieved"
    /\ idx < Len(urls)
    /\ LET url == urls[idx + 1]
           content == lookup_content(content_results, url)
       IN  /\ content_failed(content)
           /\ results' = append_result(results,
                  result_record(business_names[idx + 1], url, content, ERROR))
    /\ idx' = idx + 1
    /\ UNCHANGED <<urls, business_names, pc, i, all_results, trace,
                   content_results, classify_calls, summary, callVars, csvVars, llm>>

\* the row loop takes the branch that calls classify_business
ClassifyRow ==
    /\ pc = "retrieved"
    /\ idx < Len(urls)
    /\ LET url == urls[idx + 1]
           content == lookup_content(content_results, url)
       IN  /\ ~content_failed(content)
           /\ \E outcome \in llm :
                 /\ results' = append_result(results,
                        result_record(business_names[idx + 1], url, content,
                                      classify_business(outcome)))
                 /\ classify_calls' = Append(classify_calls,
                        [row |-> idx + 1, outcome |-> outcome])
    /\ idx' = idx + 1
    /\ UNCHANGED <<urls, business_names, pc, i, all_results, trace,
                   content_results, summary, callVars, csvVars, llm>>

\* len([r for r in results if r['result'] == value])
\* a variant that counts every result beginning with the value
CountResult_Prefix(rs, value) ==
    Cardinality({k \in 1..Len(rs) : startswith(rs[k].result, value)})

CountResult(rs, value) == Cardinality({k \in 1..Len(rs) : rs[k].result = value})

display_results(rs) ==
    [total |-> Len(rs),
     valid_count |-> CountResult(rs, VALID),
     invalid_count |-> CountResult(rs, INVALID),
     error_count |-> CountResult(rs, ERROR)]

DisplayResults ==
    /\ pc = "retrieved"
    /\ idx >= Len(urls)
    /\ pc' = "done"
    /\ summary' = display_results(results)
    /\ UNCHANGED <<urls, business_names, i, all_results, trace, content_results,
                   idx, results, classify_calls, callVars, csvVars, llm>>

\* get_content_batch applied to the request in hand
CallGetContentBatch ==
    /\ pc = "calling"
    /\ returned' = get_content_batch(request.batch, request.outcome)
    /\ pc' = "called"
    /\ UNCHANGED <<urls, business_names, i, all_results, trace, content_results,
                   idx, results, classify_calls, summary, response, parsed,
                   request, csvVars, llm>>

\* _parse_classification_response applied to the response in hand
ParseResponse ==
    /\ pc = "parsing"
    /\ parsed' = _parse_classification_response(response)
    /\ pc' = "parsed"
    /\ UNCHANGED <<urls, business_names, i, all_results, trace, content_results,
                   idx, results, classify_calls, summary, response, request,
                   returned, csvVars, llm>>

---------------------------------------------------------------------------
(* CSVHandler: the uploaded file is read into a table and validated *)

required_columns == <<"business_name", "URL">>

\* a missing value of the table, and a cell read as the string t
NaN == [kind |-> "nan", text |-> <<>>]
Cell(t) == [kind |-> "str", text |-> t]

\* field texts pd.read_csv takes for a missing value (two of its defaults)
na_values == {<<>>, <<"N","A">>}  \* '', 'NA'

NoFrame == [columns |-> {}, rows |-> <<>>]

\* pd.read_csv: a file without a header line raises; a field is read as NaN
\* when its text is one of na_values and as the string itself, whitespace
\* kept, otherwise
read_csv(file) ==
    IF file.columns = {}
    THEN [raised |-> TRUE, error |-> "No columns to parse from file",
          df |-> NoFrame]
    ELSE [raised |-> FALSE, error |-> "",
          df |-> [columns |-> file.columns,
                  rows |-> [k \in 1..Len(file.rows) |->
                              [c \in file.columns |->
                                  IF file.rows[k][c] \in na_values
                                  THEN NaN ELSE Cell(file.rows[k][c])]]]]

ValueError(error, columns) ==
    [raised |-> TRUE, error |-> error, columns |-> columns, warning |-> <<>>]

Passed(warning) ==
    [raised |-> FALSE, error |-> "", columns |-> <<>>, warning |-> warning]

_validate_columns(df) ==
    LET missing_columns ==
            SelectSeq(required_columns, LAMBDA col : col \notin df.columns)
    IN  IF missing_columns # <<>>
        THEN ValueError("Missing required columns", missing_columns)
        ELSE Passed(<<>>)

_is_valid_url(url) ==
    IF url.kind = "nan"
    THEN FALSE
    ELSE LET url_str == strip(url.text)
         IN  startswith(url_str, <<"h","t","t","p",":","/","/">>) \/ startswith(url_str, <<"h","t","t","p","s",":","/","/">>)  \* 'http://', 'https://'

\* the rows listed in the warning: the first five of those whose URL fails
\* _is_valid_url
invalid_urls(df) ==
    LET all == SelectSeq([k \in 1..Len(df.rows) |-> k],
                         LAMBDA k : ~_is_valid_url(df.rows[k]["URL"]))
    IN  SubSeq(all, 1, Min(5, Len(all)))

\* only the first required column is checked for missing values
_validate_data_FirstColumnOnly(df) ==
    IF df.rows = <<>>
    THEN ValueError("CSV file is empty", <<>>)
    ELSE IF \E k \in 1..Len(df.rows) : df.rows[k][required_columns[1]] = NaN
         THEN ValueError("contains missing values", <<required_columns[1]>>)
         ELSE Passed(invalid_urls(df))

_validate_data(df) ==
    IF df.rows = <<>>
    THEN ValueError("CSV file is empty", <<>>)
    ELSE LET with_null ==
                 SelectSeq(required_columns,
                           LAMBDA col : \E k \in 1..Len(df.rows) :
                                            df.rows[k][col] = NaN)
         IN  IF with_null # <<>>
             THEN ValueError("contains missing values", <<Head(with_null)>>)
             ELSE Passed(invalid_urls(df))

\* load_csv: every exception is raised again as a ValueError whose message
\* starts with "Error processing CSV: "
load_csv(file) ==
    LET read == read_csv(file)
        columns_check == _validate_columns(read.df)
        data_check == _validate_data(read.df)
        Failed(error, columns) ==
            [raised |-> TRUE, error |-> <<"Error processing CSV: ", error>>,
             columns |-> columns, df |-> NoFrame, warning |-> <<>>]
    IN  IF read.raised THEN Failed(read.error, <<>>)
        ELSE IF columns_check.raised
        THEN Failed(columns_check.error, columns_check.columns)
        ELSE IF data_check.raised
        THEN Failed(data_check.error, data_check.columns)
        ELSE [raised |-> FALSE, error |-> <<>>, columns |-> <<>>,
              df |-> read.df, warning |-> data_check.warning]

\* main: the uploaded file is loaded; a ValueError is shown and ends the
\* script run
LoadCsv ==
    /\ pc = "uploaded"
    /\ loaded' = load_csv(uploaded_file)
    /\ pc' = IF loaded'.raised THEN "rejected" ELSE "loaded"
    /\ UNCHANGED <<urls, business_names, i, all_results, trace, content_results,
                   idx, results, classify_calls, summary, callVars,
                   uploaded_file, llm>>

\* main: the Process URLs button, offered after a successful load, hands the
\* table to process_urls_optimized, which takes the two columns as lists
PressProcess ==
    /\ pc = "loaded"
    /\ urls' = [k \in 1..Len(loaded.df.rows) |-> loaded.df.rows[k]["URL"].text]
    /\ business_names' =
           [k \in 1..Len(loaded.df.rows) |->
               loaded.df.rows[k]["business_name"].text]
    /\ pc' = "retrieving"
    /\ UNCHANGED <<i, all_results, trace, content_results, idx, results,
                   classify_calls, summary, callVars, csvVars, llm>>

---------------------------------------------------------------------------
(* Inputs *)

NAMES == {"Acme", "Bolt"}

NoResponse == Response(FALSE, 0, FALSE, Absent, Absent)
NoRequest == [batch |-> <<>>, outcome |-> [kind |-> "none"]]
NoReturn == [raised |-> FALSE, message |-> <<>>, value |-> EmptyDict]
NoSummary == [total |-> 0, valid_count |-> 0, invalid_count |-> 0, error_count |-> 0]
NoUpload == [columns |-> {}, rows |-> <<>>]
NoLoad == [raised |-> FALSE, error |-> <<>>, columns |-> <<>>, df |-> NoFrame,
           warning |-> <<>>]

Start(us, ns) ==
    /\ urls = us
    /\ business_names = ns
    /\ pc = "retrieving"
    /\ i = 0
    /\ all_results = EmptyDict
    /\ trace = <<>>
    /\ content_results = EmptyDict
    /\ idx = 0
    /\ results = <<>>
    /\ classify_calls = <<>>
    /\ summary = NoSummary
    /\ response = NoResponse
    /\ parsed = <<>>
    /\ request = NoRequest
    /\ returned = NoReturn
    /\ uploaded_file = NoUpload
    /\ loaded = NoLoad

\* long URL lists: up to MaxBlocks blocks, each one URL repeated once or
\* batch_size times
Blocks == URLS \X {1, batch_size}

RECURSIVE Flatten(_)
Flatten(bs) ==
    IF bs = <<>> THEN <<>>
    ELSE [k \in 1..Head(bs)[2] |-> Head(bs)[1]] \o Flatten(Tail(bs))

LongUrlLists ==
    {Flatten(bs) : bs \in UNION {[1..n -> Blocks] : n \in 0..MaxBlocks}}

InitBatch ==
    /\ \E us \in LongUrlLists :
          Start(us, [k \in 1..Len(us) |-> "Acme"])
    /\ llm = LlmOutcomes

\* validated tables (load_csv rejects an empty table and null cells)
Init ==
    /\ \E n \in 1..MaxRows :
          \E us \in [1..n -> URLS], ns \in [1..n -> NAMES] : Start(us, ns)
    /\ llm = LlmOutcomes

Next ==
    \/ ProcessBatch
    \/ ReturnAllResults
    \/ SkipRow
    \/ ClassifyRow
    \/ DisplayResults

Spec == Init /\ [][Next]_vars

NextBatch == ProcessBatch \/ ReturnAllResults

SpecBatch == InitBatch /\ [][NextBatch]_vars

\* texts of a classification response: concatenations of pieces
Pieces == {<<"V","a","l","i","d">>, <<"i","n">>, <<" ">>, <<"\n">>, <<".">>}  \* 'Valid', 'in', ' ', '<newline>', '.'

RECURSIVE Join(_)
Join(ps) == IF ps = <<>> THEN <<>> ELSE Head(ps) \o Join(Tail(ps))

Texts(max) == {Join(ps) : ps \in UNION {[1..n -> Pieces] : n \in 0..max}}

TextFields(max) == {Absent, Null} \cup {Str(t) : t \in Texts(max)}

ParseInputs ==
    {Response(FALSE, 0, FALSE, Absent, Absent),
     Response(TRUE, 0, FALSE, Absent, Absent),
     Response(TRUE, 1, FALSE, Absent, Absent)}
    \cup {Response(TRUE, 1, TRUE, c, r) :
            c \in TextFields(MaxPieces), r \in TextFields(MaxReasoningPieces)}

\* no run of process_urls_optimized is under way
NoRun(at) ==
    /\ urls = <<>>
    /\ business_names = <<>>
    /\ pc = at
    /\ i = 0
    /\ all_results = EmptyDict
    /\ trace = <<>>
    /\ content_results = EmptyDict
    /\ idx = 0
    /\ results = <<>>
    /\ classify_calls = <<>>
    /\ summary = NoSummary

InitParse ==
    /\ NoRun("parsing")
    /\ response \in ParseInputs
    /\ parsed = <<>>
    /\ request = NoRequest
    /\ returned = NoReturn
    /\ uploaded_file = NoUpload
    /\ loaded = NoLoad
    /\ llm = LlmOutcomes

SpecParse == InitParse /\ [][ParseResponse]_vars

\* single get_content_batch calls: up to MaxBatch URLs and any outcome
InitContent ==
    /\ NoRun("calling")
    /\ response = NoResponse
    /\ parsed = <<>>
    /\ \E n \in 0..MaxBatch : \E b \in [1..n -> URLS] :
          \E o \in AllServiceOutcomes : request = [batch |-> b, outcome |-> o]
    /\ returned = NoReturn
    /\ uploaded_file = NoUpload
    /\ loaded = NoLoad
    /\ llm = LlmOutcomes

SpecContent == InitContent /\ [][CallGetContentBatch]_vars

\* uploaded files: any of three header names (the lower-case 'url' is not the
\* required 'URL'), up to MaxCsvRows lines, and in each field an empty text, a
\* missing-value marker, a whitespace-only text or a value
COLUMNS == {"business_name", "URL", "url"}

RawCells(c) ==
    IF c = "business_name" THEN {<<>>, <<"N","A">>, <<" ">>, <<"A","c","m","e">>}  \* '', 'NA', ' ', 'Acme'
    ELSE IF c = "URL" THEN {<<>>, <<" ">>, <<"h","t","t","p","s",":","/","/","a",".","c","o">>, <<" ","a",".","c","o">>}  \* '', ' ', 'https://a.co', ' a.co'
    ELSE {<<"x">>}  \* 'x'

Lines(columns) ==
    {r \in [columns -> UNION {RawCells(c) : c \in COLUMNS}] :
        \A c \in columns : r[c] \in RawCells(c)}

Uploads ==
    {NoUpload} \cup
    UNION {{[columns |-> cs, rows |-> rs] :
               rs \in UNION {[1..n -> Lines(cs)] : n \in 0..MaxCsvRows}} :
           cs \in SUBSET COLUMNS \ {{}}}

InitCsv ==
    /\ NoRun("uploaded")
    /\ response = NoResponse
    /\ parsed = <<>>
    /\ request = NoRequest
    /\ returned = NoReturn
    /\ uploaded_file \in Uploads
    /\ loaded = NoLoad
    /\ llm = LlmOutcomes

\* tables of more than batch_size rows: a full first chunk (one URL in its
\* first row, one in the others) and up to MaxTailRows rows after it; and a
\* classification service that gives the same outcome for every row
LongTables ==
    {[k \in 1..batch_size |-> IF k = 1 THEN a ELSE b] \o tail :
        a \in URLS, b \in URLS,
        tail \in UNION {[1..n -> URLS] : n \in 1..MaxTailRows}}

InitLong ==
    /\ \E us \in LongTables :
          Start(us, [k \in 1..Len(us) |-> "Acme"])
    /\ \E outcome \in LlmOutcomes : llm = {outcome}

SpecLong == InitLong /\ [][Next]_vars

NextCsv == LoadCsv \/ PressProcess

SpecCsv == InitCsv /\ [][NextCsv]_vars


---------------------------------------------------------------------------
(* Properties *)

\* s begins with the characters of p
BeginsWith(s, p) ==
    /\ Len(s) >= Len(p)
    /\ \A j \in 1..Len(p) : s[j] = p[j]

\* the get_content_batch calls of the trace, in order
CallEvents == SelectSeq(trace, LAMBDA e : e.op = "get_content_batch")

\* the number of the chunk that holds row k
ChunkOf(k) == ((k - 1) \div batch_size) + 1

\* the rows classify_business was called for
ClassifiedRows == {classify_calls[p].row : p \in 1..Len(classify_calls)}

\* the number of classify_business calls made for row k
CallsFor(k) == Cardinality({p \in 1..Len(classify_calls) : classify_calls[p].row = k})

\* C1: whatever the retrieval and classification outcomes, the row loop has
\* appended exactly one record per row handled, the k-th record carries the
\* business_name and URL of the k-th input row, and the finished run reports
\* one record per input row.
C1_OneRecordPerRow ==
    /\ Len(results) = idx
    /\ idx <= Len(urls)
    /\ \A k \in 1..Len(results) :
          /\ results[k].business_name = business_names[k]
          /\ results[k].URL = urls[k]
    /\ pc = "done" => Len(results) = Len(urls)

\* C1 witness: a finished run over two different rows, the first with a
\* per-URL service error, the second with a failed classification.
C1_Witness ==
    /\ pc = "done"
    /\ Len(results) = 2
    /\ business_names[1] # business_names[2]
    /\ urls[1] # urls[2]
    /\ results[1].scraped_content = <<"E","r","r","o","r",":"," ","C","R","A","W","L","_","N","O","T","_","F","O","U","N","D">>  \* 'Error: CRAWL_NOT_FOUND'
    /\ results[1].result = ERROR
    /\ results[2].result = <<"E","R","R","O","R",":"," ","t","i","m","e","d"," ","o","u","t">>  \* 'ERROR: timed out'

\* C2: a row whose chunk's get_content_batch call raised has
\* website_working = FALSE and result "ERROR", and classify_business was not
\* called for it.
C2_TransportFailureRowIsError ==
    \A k \in 1..Len(results) :
        CallEvents[ChunkOf(k)].raised =>
            /\ results[k].website_working = FALSE
            /\ results[k].result = ERROR
            /\ k \notin ClassifiedRows

\* C3: a row whose looked-up content begins with "Error" is not classified
\* and has result "ERROR"; every other row is classified exactly once.
C3_ErrorContentSkipsClassifier ==
    \A k \in 1..Len(results) :
        LET content == IF urls[k] \in DOMAIN content_results
                       THEN content_results[urls[k]]
                       ELSE <<"E","r","r","o","r",":"," ","N","o"," ","c","o","n","t","e","n","t"," ","r","e","t","r","i","e","v","e","d">>  \* 'Error: No content retrieved'
        IN  IF BeginsWith(content, <<"E","r","r","o","r">>)  \* 'Error'
            THEN CallsFor(k) = 0 /\ results[k].result = ERROR
            ELSE CallsFor(k) = 1

\* C3 witness: a finished run whose first row was skipped on a page text that
\* begins with "Error" and whose second row was classified.
C3_Witness ==
    /\ pc = "done"
    /\ Len(results) = 2
    /\ results[1].scraped_content = ErrorPageText
    /\ results[1].result = ERROR
    /\ CallsFor(1) = 0
    /\ results[2].scraped_content = PageText
    /\ CallsFor(2) = 1

\* the URLs of a batch
UrlsOf(batch) == {batch[j] : j \in 1..Len(batch)}

\* C4 as stated: once process_urls_in_batches has returned, every URL of
\* every chunk whose call raised maps to a string beginning with
\* "Batch error:".
C4_FailedChunkUrlsAreBatchErrors ==
    pc = "retrieved" =>
        \A k \in 1..Len(CallEvents) :
            CallEvents[k].raised =>
                \A u \in UrlsOf(CallEvents[k].batch) :
                    /\ u \in DOMAIN content_results
                    /\ BeginsWith(content_results[u], <<"B","a","t","c","h"," ","e","r","r","o","r",":">>)  \* 'Batch error:'

\* C4 as amended: the same for every URL of the failed chunk whose entry no
\* later chunk has written.
C4_FailedChunkUrlsUnlessRewritten ==
    pc = "retrieved" =>
        \A k \in 1..Len(CallEvents) :
            CallEvents[k].raised =>
                \A u \in UrlsOf(CallEvents[k].batch) :
                    (\A j \in (k + 1)..Len(CallEvents) : u \notin CallEvents[j].written)
                    => /\ u \in DOMAIN content_results
                       /\ BeginsWith(content_results[u], <<"B","a","t","c","h"," ","e","r","r","o","r",":">>)  \* 'Batch error:'

\* C4 witness: a chunk of two different URLs failed, a later chunk succeeded
\* without writing one of them, and that URL is still a batch error.
C4_Witness ==
    /\ pc = "retrieved"
    /\ \E k \in 1..Len(CallEvents) : \E j \in (k + 1)..Len(CallEvents) :
          /\ CallEvents[k].raised
          /\ ~CallEvents[j].raised
          /\ Cardinality(UrlsOf(CallEvents[k].batch)) = 2
          /\ \E u \in UrlsOf(CallEvents[k].batch) :
                /\ \A m \in (k + 1)..Len(CallEvents) : u \notin CallEvents[m].written
                /\ BeginsWith(content_results[u], <<"B","a","t","c","h"," ","e","r","r","o","r",":">>)  \* 'Batch error:'

\* C5: process_urls_in_batches always has a next step until it returns; the
\* calls made so far are the consecutive chunks of batch_size URLs of the
\* part of the list passed so far, the last chunk holding the remainder,
\* whether or not earlier calls raised; on return there are
\* ceil(N / batch_size) of them.
C5_EveryChunkDispatched ==
    LET N == Len(urls)
        passed == IF i < N THEN i ELSE N
    IN  /\ Len(CallEvents) = (passed + batch_size - 1) \div batch_size
        /\ \A k \in 1..Len(CallEvents) :
              LET first == (k - 1) * batch_size
                  size == IF k * batch_size <= N THEN batch_size ELSE N - first
              IN  /\ Len(CallEvents[k].batch) = size
                  /\ \A j \in 1..size : CallEvents[k].batch[j] = urls[first + j]
        /\ pc = "retrieved" => Len(CallEvents) = (N + batch_size - 1) \div batch_size
        /\ pc = "retrieving" => ENABLED (ProcessBatch \/ ReturnAllResults)

\* C5 witness: 21 URLs, three calls (10, 10, 1), the first of which raised.
C5_Witness ==
    /\ pc = "retrieved"
    /\ Len(urls) = 2 * batch_size + 1
    /\ Len(CallEvents) = 3
    /\ CallEvents[1].raised
    /\ Len(CallEvents[3].batch) = 1
    /\ ~CallEvents[3].raised

\* C6: once process_urls_in_batches has returned, its trace is
\* call, sleep(0.5 s), call, ..., call: exactly one pause between every two
\* consecutive calls, whether the earlier one raised or not, and none after
\* the last.
C6_OnePauseBetweenChunks ==
    pc = "retrieved" =>
        /\ Len(trace) = (IF Len(CallEvents) = 0 THEN 0 ELSE 2 * Len(CallEvents) - 1)
        /\ \A p \in 1..Len(trace) :
              IF p % 2 = 1 THEN trace[p].op = "get_content_batch"
              ELSE trace[p].op = "sleep" /\ trace[p].ms = sleep_ms

\* C7: every URL already passed to a chunk is a key of all_results, every
\* URL of the input is a key of the returned dict, and a call that returned
\* normally wrote a key for every URL of its batch.
C7_EveryUrlIsAKey ==
    /\ \A k \in 1..Len(urls) : k <= i => urls[k] \in DOMAIN all_results
    /\ pc = "retrieved" => \A k \in 1..Len(urls) : urls[k] \in DOMAIN content_results
    /\ \A k \in 1..Len(CallEvents) :
          ~CallEvents[k].raised => UrlsOf(CallEvents[k].batch) \subseteq CallEvents[k].written

\* C7 witness: the returned dict holds a URL the service left out of both
\* lists and a URL of a chunk whose call raised.
C7_Witness ==
    /\ pc = "retrieved"
    /\ \E u \in DOMAIN content_results :
          content_results[u] = <<"E","r","r","o","r",":"," ","U","R","L"," ","n","o","t"," ","f","o","u","n","d"," ","i","n"," ","r","e","s","p","o","n","s","e">>  \* 'Error: URL not found in response'
    /\ \E u \in DOMAIN content_results :
          BeginsWith(content_results[u], <<"B","a","t","c","h"," ","e","r","r","o","r",":">>)  \* 'Batch error:'

\* the entries of a response list about URL u
EntriesFor(list, u) == SelectSeq(list, LAMBDA e : e.id = u)

\* C8: when a get_content_batch call returns normally, a URL with an entry in
\* the results list and an errored entry in the statuses list maps to the
\* text of its results entry ("No content available" when the entry has no
\* text), not to "Error: <tag>".
C8_SuccessEntryWins ==
    (pc = "called" /\ request.batch # <<>> /\ request.outcome.kind = "ok") =>
        /\ ~returned.raised
        /\ \A u \in URLS :
              LET rs == EntriesFor(request.outcome.data.results, u)
                  ss == EntriesFor(request.outcome.data.statuses, u)
              IN  (rs # <<>> /\ \E p \in 1..Len(ss) : ss[p].status = "error") =>
                      /\ u \in DOMAIN returned.value
                      /\ returned.value[u] =
                            (IF rs[Len(rs)].has_text THEN rs[Len(rs)].text
                             ELSE <<"N","o"," ","c","o","n","t","e","n","t"," ","a","v","a","i","l","a","b","l","e">>)  \* 'No content available'
                      /\ returned.value[u] # <<"E","r","r","o","r",":"," ","C","R","A","W","L","_","N","O","T","_","F","O","U","N","D">>  \* 'Error: CRAWL_NOT_FOUND'

\* C8 witness: u1 has a text entry and an errored status, and the call
\* returned its text.
C8_Witness ==
    /\ pc = "called"
    /\ request.batch = <<"u1">>
    /\ request.outcome.kind = "ok"
    /\ EntriesFor(request.outcome.data.results, "u1") # <<>>
    /\ \E p \in 1..Len(request.outcome.data.statuses) :
          /\ request.outcome.data.statuses[p].id = "u1"
          /\ request.outcome.data.statuses[p].status = "error"
    /\ returned.value["u1"] = PageText

\* the text t holds the word w (upper case) as a whitespace-delimited token,
\* letter case aside
HasWord(t, w) ==
    \E a \in 1..Len(t) :
        LET b == a + Len(w) - 1
        IN  /\ b <= Len(t)
            /\ \A j \in 1..Len(w) : UpperChar(t[a + j - 1]) = w[j]
            /\ a = 1 \/ t[a - 1] \in Whitespace
            /\ b = Len(t) \/ t[b + 1] \in Whitespace

\* the primary message text of the response parsed ('' when absent)
PrimaryText ==
    IF response.has_message /\ response.content.kind = "str"
    THEN response.content.text ELSE <<>>

\* the primary text has no character other than whitespace
PrimaryTextBlank == \A j \in 1..Len(PrimaryText) : PrimaryText[j] \in Whitespace

\* a response with at least one choice whose primary text is not null
ParsedWithChoice ==
    /\ pc = "parsed"
    /\ response.has_choices
    /\ response.n_choices > 0
    /\ ~(response.has_message /\ response.content.kind = "null")

C10_ClassifierFailureIsRecorded ==
    /\ \A p \in 1..Len(classify_calls) :
          LET c == classify_calls[p]
              r == results[c.row].result
          IN  /\ c.outcome.kind = "raise" => r = <<"E","R","R","O","R",":"," ">> \o c.outcome.msg  \* 'ERROR: '
              /\ (c.outcome.kind = "ok" /\ c.outcome.resp.n_choices > 0
                    /\ c.outcome.resp.content.kind = "null")
                 => BeginsWith(r, <<"E","R","R","O","R",":"," ">>)  \* 'ERROR: '
              /\ r \in {VALID, INVALID} \/ BeginsWith(r, <<"E","R","R","O","R",":"," ">>)  \* 'ERROR: '
    /\ Len(results) = idx
    /\ (pc = "retrieved" /\ idx < Len(urls)) => ENABLED (SkipRow \/ ClassifyRow)

\* C10 witness: a finished run whose first row's API call raised and whose
\* second row was then classified VALID.
C10_Witness ==
    /\ pc = "done"
    /\ Len(classify_calls) = 2
    /\ classify_calls[1].row = 1
    /\ classify_calls[1].outcome.kind = "raise"
    /\ results[1].result = <<"E","R","R","O","R",":"," ","t","i","m","e","d"," ","o","u","t">>  \* 'ERROR: timed out'
    /\ results[2].result = VALID

\* ---------------------------------------------------------------------------
\* C11: a response without choices
\* ---------------------------------------------------------------------------

\* the response parsed has no 'choices' key or an empty 'choices' list
NoChoices == ~response.has_choices \/ response.n_choices = 0

\* C11: a response whose choices are absent or empty is parsed to exactly
\* "ERROR: No response content", never to VALID or INVALID.
C11_NoChoicesIsNoResponseContent ==
    (pc = "parsed" /\ NoChoices) =>
        /\ parsed = <<"E","R","R","O","R",":"," ","N","o"," ","r","e","s","p","o","n","s","e"," ","c","o","n","t","e","n","t">>  \* 'ERROR: No response content'
        /\ parsed \notin {VALID, INVALID}

\* a response with an empty 'choices' list has been parsed
C11_Witness ==
    /\ pc = "parsed"
    /\ response.has_choices
    /\ response.n_choices = 0
    /\ parsed = <<"E","R","R","O","R",":"," ","N","o"," ","r","e","s","p","o","n","s","e"," ","c","o","n","t","e","n","t">>  \* 'ERROR: No response content'

\* ---------------------------------------------------------------------------
\* C15: the reasoning fallback
\* ---------------------------------------------------------------------------

\* the verdict of the exact-token search over the text t
TokenVerdict(t) == IF HasWord(t, VALID) THEN VALID ELSE INVALID

\* the message of the response parsed carries a reasoning string
HasReasoningText == response.has_message /\ response.reasoning.kind = "str"

\* C15 as stated (reasoning field a string or absent): with an empty primary
\* text and a reasoning text the token search over the reasoning text decides,
\* and with a non-empty primary text the verdict is that of the primary text
\* whatever the reasoning field holds.
C15_ReasoningOnlyWhenPrimaryEmpty ==
    (ParsedWithChoice /\ response.reasoning.kind # "null") =>
        /\ (PrimaryText = <<>> /\ HasReasoningText)
           => parsed = TokenVerdict(response.reasoning.text)
        /\ PrimaryText # <<>> => parsed = TokenVerdict(PrimaryText)

\* C15 as amended: emptiness is tested after stripping, so a primary text of
\* whitespace only counts as empty. With a blank primary text and a reasoning
\* text the token search over the reasoning text decides; with a primary text
\* holding a non-whitespace character the verdict is that of the primary text
\* whatever the reasoning field holds.
C15_ReasoningOnlyWhenPrimaryBlank ==
    ParsedWithChoice =>
        /\ (PrimaryTextBlank /\ HasReasoningText)
           => parsed = TokenVerdict(response.reasoning.text)
        /\ ~PrimaryTextBlank => parsed = TokenVerdict(PrimaryText)

\* a whitespace-only primary text was parsed to VALID from the reasoning text
C15_Witness ==
    /\ ParsedWithChoice
    /\ PrimaryText = <<" ">>  \* ' '
    /\ HasReasoningText
    /\ response.reasoning.text = <<"V","a","l","i","d">>  \* 'Valid'
    /\ parsed = VALID

\* ---------------------------------------------------------------------------
\* C12: what the validator accepts
\* ---------------------------------------------------------------------------

\* the uploaded file as the table pd.read_csv makes of it
Table == read_csv(uploaded_file).df

\* load_csv has run on the uploaded file
Validated == pc \in {"loaded", "rejected", "retrieving"}

HasRequiredColumns == {"business_name", "URL"} \subseteq uploaded_file.columns

\* the cells of the table in the required columns it has
RequiredCells ==
    {Table.rows[k][c] : k \in 1..Len(Table.rows),
                        c \in {"business_name", "URL"} \cap Table.columns}

IsNull(cell) == cell.kind = "nan"

\* a cell that is a string without any character other than whitespace
IsBlank(cell) ==
    /\ cell.kind = "str"
    /\ \A j \in 1..Len(cell.text) : cell.text[j] \in Whitespace

\* a rejected table never reaches process_urls_optimized
RejectedIsNotProcessed == loaded.raised => (pc = "rejected" /\ urls = <<>>)

\* C12 as stated: the table is accepted exactly when it has both required
\* columns, at least one row, and no required cell that is null or blank
\* (whitespace only); a table that fails is not processed.
C12_AcceptedIffNoNullOrBlank ==
    Validated =>
        /\ ~loaded.raised <=>
              /\ HasRequiredColumns
              /\ Len(uploaded_file.rows) >= 1
              /\ \A cell \in RequiredCells : ~IsNull(cell) /\ ~IsBlank(cell)
        /\ RejectedIsNotProcessed

\* C12 as amended: the table is accepted exactly when it has both required
\* columns, at least one row, and no required cell that is null (a field read
\* as a missing value); a required cell of whitespace only is not null and is
\* accepted. A table that fails is not processed.
C12_AcceptedIffNoNull ==
    Validated =>
        /\ ~loaded.raised <=>
              /\ HasRequiredColumns
              /\ Len(uploaded_file.rows) >= 1
              /\ \A cell \in RequiredCells : ~IsNull(cell)
        /\ RejectedIsNotProcessed

\* a table whose business_name cell is whitespace only was accepted and handed
\* to process_urls_optimized
C12_Witness ==
    /\ pc = "retrieving"
    /\ Len(uploaded_file.rows) = 1
    /\ uploaded_file.rows[1]["business_name"] = <<" ">>  \* ' '
    /\ business_names = <<<<" ">>>>  \* ' '

\* a table with a null URL cell was rejected
C12_RejectedWitness ==
    /\ pc = "rejected"
    /\ HasRequiredColumns
    /\ Len(uploaded_file.rows) = 1
    /\ uploaded_file.rows[1]["URL"] = <<>>  \* ''
    /\ uploaded_file.rows[1]["business_name"] = <<"A","c","m","e">>  \* 'Acme'

\* ---------------------------------------------------------------------------
\* C13: the summary counts
\* ---------------------------------------------------------------------------

\* the records whose result is exactly the text t
RecordsWith(t) == {k \in 1..Len(results) : results[k].result = t}

\* the records whose result is an error string with a detail
DetailRecords ==
    {k \in 1..Len(results) : BeginsWith(results[k].result, <<"E","R","R","O","R",":"," ">>)}  \* 'ERROR: '

\* C13: in the summary of a finished run the three counts are the numbers of
\* records whose result is exactly "VALID", "INVALID" and "ERROR"; a record
\* whose result is "ERROR: <detail>" is in the total and in none of the three,
\* so the counts add up to the total less the number of such records.
C13_CountsAreExactMatches ==
    pc = "done" =>
        /\ summary.total = Len(results)
        /\ summary.valid_count = Cardinality(RecordsWith(<<"V","A","L","I","D">>))  \* 'VALID'
        /\ summary.invalid_count = Cardinality(RecordsWith(<<"I","N","V","A","L","I","D">>))  \* 'INVALID'
        /\ summary.error_count = Cardinality(RecordsWith(<<"E","R","R","O","R">>))  \* 'ERROR'
        /\ DetailRecords \cap (RecordsWith(<<"V","A","L","I","D">>) \cup RecordsWith(<<"I","N","V","A","L","I","D">>)  \* 'VALID', 'INVALID'
                               \cup RecordsWith(<<"E","R","R","O","R">>)) = {}  \* 'ERROR'
        /\ summary.valid_count + summary.invalid_count + summary.error_count
           = summary.total - Cardinality(DetailRecords)

\* a finished run of two rows, one skipped and one whose classification
\* failed: the counts add up to one of a total of two
C13_Witness ==
    /\ pc = "done"
    /\ summary.total = 2
    /\ summary.error_count = 1
    /\ summary.valid_count = 0
    /\ summary.invalid_count = 0
    /\ Cardinality(DetailRecords) = 1

\* ---------------------------------------------------------------------------
\* C14: website_working and the outcome of the retrieval
\* ---------------------------------------------------------------------------

\* the call for the chunk of row k raised (a transport failure)
ChunkRaised(k) == CallEvents[ChunkOf(k)].raised

\* the markers get_content_batch writes for a URL the service did not deliver
PerUrlFailures ==
    {<<"E","r","r","o","r",":"," ","C","R","A","W","L","_","N","O","T","_","F","O","U","N","D">>, <<"E","r","r","o","r",":"," ","U","n","k","n","o","w","n"," ","e","r","r","o","r">>,  \* 'Error: CRAWL_NOT_FOUND', 'Error: Unknown error'
     <<"E","r","r","o","r",":"," ","U","R","L"," ","n","o","t"," ","f","o","u","n","d"," ","i","n"," ","r","e","s","p","o","n","s","e">>}  \* 'Error: URL not found in response'

\* the retrieval of row k's URL failed: its chunk's call raised, or the call
\* returned and marked the URL with a per-URL error or as missing
RetrievalFailed(k) ==
    ChunkRaised(k) \/ results[k].scraped_content \in PerUrlFailures

\* the service returned a page text for row k's URL
RetrievalSucceeded(k) ==
    ~ChunkRaised(k) /\ results[k].scraped_content \in {PageText, ErrorPageText}

\* C14: a record has website_working = TRUE when the service returned text
\* for its URL and FALSE when the retrieval failed (per-URL error, URL
\* missing, or transport failure of its chunk), so a failed row has
\* website_working = FALSE or a result beginning with "ERROR".
C14_WorkingIffRetrieved ==
    \A k \in 1..Len(results) :
        /\ RetrievalSucceeded(k) => results[k].website_working = TRUE
        /\ RetrievalFailed(k) => results[k].website_working = FALSE
        /\ RetrievalFailed(k) =>
              \/ results[k].website_working = FALSE
              \/ BeginsWith(results[k].result, <<"E","R","R","O","R">>)  \* 'ERROR'

\* ---------------------------------------------------------------------------
\* C16: rows that share a URL
\* ---------------------------------------------------------------------------

\* the calls that wrote an entry for the URL u
WritersOf(u) == {j \in 1..Len(CallEvents) : u \in CallEvents[j].written}

\* the last of them
LastWriter(u) == CHOOSE j \in WritersOf(u) : \A m \in WritersOf(u) : m <= j

\* the records made so far for rows with the URL u
RowsOf(u) == {k \in 1..Len(results) : urls[k] = u}

\* C16: the records of rows with the same URL all have the same
\* scraped_content and the same website_working, those of the URL's entry in
\* the content map; that entry was written by the last call that wrote the
\* URL, a call not earlier than the chunk of any of these rows, so that it is
\* a batch error exactly when that call raised, whatever earlier chunks did.
C16_SharedUrlSharesLastEntry ==
    \A u \in {urls[k] : k \in 1..Len(results)} :
        /\ u \in DOMAIN content_results
        /\ WritersOf(u) # {}
        /\ LET first == CHOOSE k \in RowsOf(u) : TRUE
               last_call == LastWriter(u)
           IN  /\ \A k \in RowsOf(u) :
                     /\ results[k].scraped_content = content_results[u]
                     /\ results[k].website_working = results[first].website_working
                     /\ last_call >= ChunkOf(k)
               /\ CallEvents[last_call].raised
                  <=> BeginsWith(content_results[u], <<"B","a","t","c","h"," ","e","r","r","o","r",":">>)  \* 'Batch error:'

\* the first and the eleventh row share a URL; the call for the first chunk
\* raised, the call for the second delivered the page, and both records carry
\* the page text
C16_Witness ==
    /\ pc = "done"
    /\ Len(results) > batch_size
    /\ urls[1] = urls[batch_size + 1]
    /\ CallEvents[1].raised
    /\ ~CallEvents[2].raised
    /\ results[1].scraped_content = PageText
    /\ results[batch_size + 1].scraped_content = PageText
    /\ results[1].website_working

\* ---------------------------------------------------------------------------
\* C17: result "ERROR" and website_working
\* ---------------------------------------------------------------------------

\* C17: in every record the result is exactly "ERROR" if and only if
\* website_working is FALSE, and a record with website_working = TRUE has
\* the result "VALID", "INVALID" or a text beginning with "ERROR: ".
C17_ErrorIffNotWorking ==
    \A k \in 1..Len(results) :
        /\ results[k].result = <<"E","R","R","O","R">> <=> results[k].website_working = FALSE  \* 'ERROR'
        /\ results[k].website_working = TRUE =>
              \/ results[k].result \in {<<"V","A","L","I","D">>, <<"I","N","V","A","L","I","D">>}  \* 'VALID', 'INVALID'
              \/ BeginsWith(results[k].result, <<"E","R","R","O","R",":"," ">>)  \* 'ERROR: '

\* a finished run with a skipped row (result "ERROR", not working) and a row
\* whose classification failed (working, result "ERROR: ...")
C17_Witness ==
    /\ pc = "done"
    /\ Len(results) = 2
    /\ results[1].result = <<"E","R","R","O","R">>  \* 'ERROR'
    /\ results[1].website_working = FALSE
    /\ results[2].website_working = TRUE
    /\ BeginsWith(results[2].result, <<"E","R","R","O","R",":"," ">>)  \* 'ERROR: '

====
